---- MODULE Spec2Model ----
(***************************************************************************)
(* A model of gomelon's lifecycle and administration core:                 *)
(*   - core.LifecycleEnvironment  (managed objects, ordered start/stop)    *)
(*   - core.AdminEnvironment      (admin handlers, tasks, health checks)   *)
(*   - core.logTask               (log level get/set task)                 *)
(*   - core.Bootstrap / gomelon.Run (bundles, command dispatch)            *)
(* Each component has its own specification over the shared variables.     *)
(***************************************************************************)
EXTENDS Integers, Sequences, FiniteSets, TLC

VARIABLES
    \* ---- core.LifecycleEnvironment
    managedObjects,   \* env.managedObjects: sequence of managed objects
    startCalls,       \* Start() invocations so far, in call order
    stopCalls,        \* Stop() invocations so far, in call order
    warnings,         \* warnings written to the lifecycle logger
    lcPhase,          \* position of the environment: registering/started/stopped
    lcAborted,        \* TRUE iff onStarting/onStopped ended other than by returning
    \* ---- core.AdminEnvironment
    handlers,         \* env.handlers
    tasks,            \* env.tasks
    healthChecks,     \* names registered in env.HealthChecks
    routes,           \* ServerHandler.Handle calls: [method, path, target]
    homeHandlers,     \* adminHomeHandler.handlers
    adminPhase,       \* registering/started
    adminLog,         \* entries written to the admin logger
    lastCall,         \* the last AddHandler/AddTask call: [op, args]
    \* ---- HTTP exchange (health check handler and log task)
    lastReq,          \* the request served last
    resp,             \* the response to it: [status, headers, body]
    \* ---- gol loggers as seen by core.logTask
    loggerLevel,      \* level of every logger
    applied,          \* per logger: level argument of the last accepted request
    lastParse,        \* what parseLogLevel returned in the last log task request
    \* ---- core.Bootstrap and gomelon.Run
    bundles,          \* bootstrap.bundles
    commands,         \* bootstrap.commands
    pc,               \* position of gomelon.Run
    args,             \* the arguments given to gomelon.Run
    ranCommands,      \* commands whose Run was invoked by gomelon.Run
    runReturn,        \* value returned by gomelon.Run
    helpOut,          \* lines printed by printHelp
    bundleRunCalls,   \* Bundle.Run invocations made by Bootstrap.Run
    bundleEvents,     \* what the AddBundle calls did: <<"Initialize", b>>, <<"append", b>>
    failingBundles,   \* the bundles whose Run returns an error
    bootstrapResult   \* value returned by Bootstrap.Run

lifecycleVars == <<managedObjects, startCalls, stopCalls, warnings, lcPhase, lcAborted>>
adminVars == <<handlers, tasks, healthChecks, routes, homeHandlers, adminPhase, adminLog,
               lastCall>>
httpVars == <<lastReq, resp>>
logVars == <<loggerLevel, applied, lastParse>>
bootstrapVars == <<bundles, commands, pc, args, ranCommands, runReturn, helpOut,
                   bundleRunCalls, bundleEvents, failingBundles, bootstrapResult>>
vars == <<lifecycleVars, adminVars, httpVars, logVars, bootstrapVars>>

\* ------------------------------------------------------------------ bounds
MaxManaged == 3
MaxAdded == 2
MaxChecks == 2
MaxLoggers == 2
MaxBundles == 3
MaxCommands == 2
MaxArgs == 2
MaxInitCalls == 1

\* ----------------------------------------------------------------- helpers
RECURSIVE Reverse(_)
Reverse(s) == IF s = <<>> THEN <<>> ELSE Append(Reverse(Tail(s)), Head(s))

SeqsUpTo(S, n) == UNION {[1..k -> S] : k \in 0..n}

Count(s, x) == Cardinality({i \in 1..Len(s) : s[i] = x})

NoValue == "nil"

\* =================================================== core.LifecycleEnvironment
Objects == {"pool", "worker"}

\* A loop that gives up at the first error.
RECURSIVE CallUntilError(_, _, _)
CallUntilError(order, failing, what) ==
    IF order = <<>>
    THEN [calls |-> <<>>, warns |-> <<>>, aborted |-> FALSE]
    ELSE LET o == Head(order)
         IN IF o \in failing
            THEN [calls |-> <<o>>, warns |-> << <<what, o>> >>, aborted |-> TRUE]
            ELSE LET rest == CallUntilError(Tail(order), failing, what)
                 IN [calls |-> <<o>> \o rest.calls, warns |-> rest.warns,
                     aborted |-> rest.aborted]

\* The effect of one loop of Start()/Stop() calls over the objects in `order`,
\* where the calls on the objects in `failing` return an error.
\* The error is logged and the loop goes on.
RECURSIVE CallAll(_, _, _)
CallAll(order, failing, what) ==
    IF order = <<>>
    THEN [calls |-> <<>>, warns |-> <<>>, aborted |-> FALSE]
    ELSE LET rest == CallAll(Tail(order), failing, what)
             o == Head(order)
         IN [calls |-> <<o>> \o rest.calls,
             warns |-> (IF o \in failing THEN << <<what, o>> >> ELSE <<>>) \o rest.warns,
             aborted |-> rest.aborted]

StartLoop(objs, failing) == CallAll(objs, failing, "error starting a managed object")

StopOrderForward(objs) == objs

StopOrder(objs) == Reverse(objs)

StopLoop(objs, failing) ==
    CallAll(StopOrder(objs), failing, "error stopping a managed object")

Manage(obj) ==
    /\ Len(managedObjects) < MaxManaged
    /\ managedObjects' = Append(managedObjects, obj)
    /\ UNCHANGED <<startCalls, stopCalls, warnings, lcPhase, lcAborted>>
    /\ UNCHANGED <<adminVars, httpVars, logVars, bootstrapVars>>

LifecycleOnStarting(failing) ==
    /\ lcPhase = "registering"
    /\ LET r == StartLoop(managedObjects, failing)
       IN /\ startCalls' = startCalls \o r.calls
          /\ warnings' = warnings \o r.warns
          /\ lcAborted' = r.aborted
    /\ lcPhase' = "started"
    /\ UNCHANGED <<managedObjects, stopCalls>>
    /\ UNCHANGED <<adminVars, httpVars, logVars, bootstrapVars>>

LifecycleOnStopped(failing) ==
    /\ lcPhase = "started"
    /\ LET r == StopLoop(managedObjects, failing)
       IN /\ stopCalls' = stopCalls \o r.calls
          /\ warnings' = warnings \o r.warns
          /\ lcAborted' = r.aborted
    /\ lcPhase' = "stopped"
    /\ UNCHANGED <<managedObjects, startCalls>>
    /\ UNCHANGED <<adminVars, httpVars, logVars, bootstrapVars>>

InitLifecycle ==
    /\ managedObjects = <<>>
    /\ startCalls = <<>>
    /\ stopCalls = <<>>
    /\ warnings = <<>>
    /\ lcPhase = "registering"
    /\ lcAborted = FALSE

\* ======================================================= core.AdminEnvironment
metricsUri == "/metrics"
pingUri == "/ping"
runtimeUri == "/runtime"
healthCheckUri == "/healthcheck"
tasksUri == "/tasks"
gcTaskName == "gc"
logTaskName == "log"
noHealthChecksWarning == "THIS APPLICATION HAS NO HEALTHCHECKS."
CacheControl == "must-revalidate,no-cache,no-store"

\* An AdminHandler is its Name() and Path(); a Task is its Name() and the
\* object implementing it.
metricsHandler == [name |-> "Metrics", path |-> metricsUri]
pingHandler == [name |-> "Ping", path |-> pingUri]
runtimeHandler == [name |-> "Runtime", path |-> runtimeUri]
healthCheckHandler == [name |-> "Healthcheck", path |-> healthCheckUri]
adminHomeHandler == [name |-> "Operational Menu", path |-> "/"]
gcTask == [name |-> gcTaskName, impl |-> "core.gcTask"]
logTask == [name |-> logTaskName, impl |-> "core.logTask"]

\* Handlers and tasks an application may add.
CustomHandlers == {[name |-> "Stats", path |-> "/stats"],
                   [name |-> "Alive", path |-> pingUri]}
CustomTasks == {[name |-> "reload", impl |-> "app.reloadTask"],
                [name |-> gcTaskName, impl |-> "app.gcTask"]}
CheckNames == {"db", "cache", "disk"}

DefaultHandlers == <<metricsHandler, pingHandler, runtimeHandler, healthCheckHandler>>
DefaultTasks == <<gcTask, logTask>>

\* NewAdminEnvironment: an empty health registry, the default handlers and tasks.
InitAdmin ==
    /\ handlers = DefaultHandlers
    /\ tasks = DefaultTasks
    /\ healthChecks = {}
    /\ routes = <<>>
    /\ homeHandlers = <<>>
    /\ adminPhase = "registering"
    /\ adminLog = <<>>
    /\ lastCall = [op |-> "NewAdminEnvironment", args |-> <<>>]

\* An AddTask that puts the new tasks in front.
AddTaskInFront(ts) ==
    /\ Len(tasks) + Len(ts) <= Len(DefaultTasks) + MaxAdded
    /\ tasks' = ts \o tasks
    /\ lastCall' = [op |-> "AddTask", args |-> ts]
    /\ UNCHANGED <<handlers, healthChecks, routes, homeHandlers, adminPhase, adminLog>>
    /\ UNCHANGED <<lifecycleVars, httpVars, logVars, bootstrapVars>>

AddTask(ts) ==
    /\ Len(tasks) + Len(ts) <= Len(DefaultTasks) + MaxAdded
    /\ tasks' = tasks \o ts
    /\ lastCall' = [op |-> "AddTask", args |-> ts]
    /\ UNCHANGED <<handlers, healthChecks, routes, homeHandlers, adminPhase, adminLog>>
    /\ UNCHANGED <<lifecycleVars, httpVars, logVars, bootstrapVars>>

AddHandler(hs) ==
    /\ Len(handlers) + Len(hs) <= Len(DefaultHandlers) + MaxAdded
    /\ handlers' = handlers \o hs
    /\ lastCall' = [op |-> "AddHandler", args |-> hs]
    /\ UNCHANGED <<tasks, healthChecks, routes, homeHandlers, adminPhase, adminLog>>
    /\ UNCHANGED <<lifecycleVars, httpVars, logVars, bootstrapVars>>

\* health.Registry.Register, through env.HealthChecks.
RegisterHealthCheck(name) ==
    /\ Cardinality(healthChecks \cup {name}) <= MaxChecks
    /\ healthChecks' = healthChecks \cup {name}
    /\ UNCHANGED <<handlers, tasks, routes, homeHandlers, adminPhase, adminLog, lastCall>>
    /\ UNCHANGED <<lifecycleVars, httpVars, logVars, bootstrapVars>>

HandlerRoutes(hs) == [i \in 1..Len(hs) |->
    [method |-> "GET", path |-> <<hs[i].path>>, target |-> hs[i]]]

\* Task routes bound with GET, as the handlers are.
TaskRoutesGet(ts) == [i \in 1..Len(ts) |->
    [method |-> "GET", path |-> <<tasksUri, "/", ts[i].name>>, target |-> ts[i]]]

TaskRoutes(ts) == [i \in 1..Len(ts) |->
    [method |-> "POST", path |-> <<tasksUri, "/", ts[i].name>>, target |-> ts[i]]]

logTasks(ts) == << <<"INFO", "tasks =", [i \in 1..Len(ts) |-> <<"POST", ts[i].name, ts[i].impl>>]>> >>

logHealthChecks(names) ==
    (IF Cardinality(names) <= 0 THEN << <<"WARN", noHealthChecksWarning>> >> ELSE <<>>)
    \o << <<"DEBUG", "health checks =", names>> >>

AdminOnStarting ==
    /\ adminPhase = "registering"
    /\ routes' = routes
                 \o << [method |-> "GET", path |-> <<"/">>, target |-> adminHomeHandler] >>
                 \o HandlerRoutes(handlers)
                 \o TaskRoutes(tasks)
    /\ homeHandlers' = handlers
    /\ adminLog' = adminLog \o logTasks(tasks) \o logHealthChecks(healthChecks)
    /\ adminPhase' = "started"
    /\ UNCHANGED <<handlers, tasks, healthChecks, lastCall>>
    /\ UNCHANGED <<lifecycleVars, httpVars, logVars, bootstrapVars>>

RouteBound(method, path, target) ==
    \E i \in 1..Len(routes) :
        routes[i] = [method |-> method, path |-> path, target |-> target]

\* ------------------------------------------- healthCheckHandler.ServeHTTP
NoRequest == [kind |-> "none"]
NoResponse == [status |-> 0, headers |-> <<>>, body |-> <<>>]

InitHttp ==
    /\ lastReq = NoRequest
    /\ resp = NoResponse

\* What a probe may return: health.Result{Healthy, Message, Cause}.
ProbeResults == {[healthy |-> TRUE, message |-> "", cause |-> NoValue],
                 [healthy |-> FALSE, message |-> "down", cause |-> NoValue],
                 [healthy |-> FALSE, message |-> "", cause |-> "timeout"]}

\* Healthy as soon as one check is.
isAnyHealthy(results) == \E n \in DOMAIN results : results[n].healthy

isAllHealthy(results) == \A n \in DOMAIN results : results[n].healthy

\* The lines written for one check.
CheckLines(name, result) ==
    << <<name, ":\n\tHealthy: ", result.healthy, "\n">> >>
    \o (IF result.message # "" THEN << <<"\tMessage: ", result.message, "\n">> >> ELSE <<>>)
    \o (IF result.cause # NoValue THEN << <<"\tCause: ", result.cause, "\n">> >> ELSE <<>>)

RECURSIVE HealthBody(_, _)
HealthBody(order, results) ==
    IF order = <<>> THEN <<>>
    ELSE CheckLines(Head(order), results[Head(order)]) \o HealthBody(Tail(order), results)

\* All orders in which a map with the keys S may be iterated.
Orders(S) == {o \in [1..Cardinality(S) -> S] : \A n \in S : \E i \in DOMAIN o : o[i] = n}

HealthHeaders == [CacheControl |-> CacheControl, ContentType |-> "text/plain"]

\* A handler without the branch for an empty result map.
HealthResponseNoEmptyCase(results, order) ==
    [status |-> IF ~isAllHealthy(results) THEN 500 ELSE 200,
     headers |-> HealthHeaders,
     body |-> HealthBody(order, results)]

\* A handler that keeps the first response it computed and serves it again.
HealthResponseCached(results, order) ==
    IF resp.status # 0 THEN resp
    ELSE IF Cardinality(DOMAIN results) = 0
    THEN [status |-> 501, headers |-> HealthHeaders,
          body |-> << <<"No health checks registered.">> >>]
    ELSE [status |-> IF ~isAllHealthy(results) THEN 500 ELSE 200,
          headers |-> HealthHeaders,
          body |-> HealthBody(order, results)]

\* The response of healthCheckHandler.ServeHTTP for the probe results `results`,
\* the result map being iterated in the order `order`. A response on which
\* WriteHeader is never called has status 200.
HealthResponse(results, order) ==
    IF Cardinality(DOMAIN results) = 0
    THEN [status |-> 501, headers |-> HealthHeaders,
          body |-> << <<"No health checks registered.">> >>]
    ELSE [status |-> IF ~isAllHealthy(results) THEN 500 ELSE 200,
          headers |-> HealthHeaders,
          body |-> HealthBody(order, results)]

HealthCheckRequest ==
    /\ RouteBound("GET", <<healthCheckUri>>, healthCheckHandler)
    /\ \E results \in [healthChecks -> ProbeResults] :
         \E order \in Orders(healthChecks) :
            /\ lastReq' = [kind |-> "healthcheck", results |-> results]
            /\ resp' = HealthResponse(results, order)
    /\ UNCHANGED <<lifecycleVars, adminVars, logVars, bootstrapVars>>


\* ------------------------------------------------ the other admin handlers
\* ServerHandler.PathPrefix()
PathPrefix == "/admin"

\* The handlers the home page lists: adminHomeHandler.handlers.
IndexedHandlersLive == handlers

IndexedHandlers == homeHandlers

\* The <li> entries adminHomeHandler.ServeHTTP writes for the handlers hs.
HomeEntries(hs) == [i \in 1..Len(hs) |->
    <<"<li><a href=\"", PathPrefix, hs[i].path, "\">", hs[i].name, "</a></li>">>]

\* adminHomeHandler.ServeHTTP: the page adminHTML around the entries.
HomeRequest ==
    /\ RouteBound("GET", <<"/">>, adminHomeHandler)
    /\ lastReq' = [kind |-> "home"]
    /\ resp' = [status |-> 200,
                headers |-> [CacheControl |-> CacheControl, ContentType |-> "text/html"],
                body |-> << <<"adminHTML", HomeEntries(IndexedHandlers)>> >>]
    /\ UNCHANGED <<lifecycleVars, adminVars, logVars, bootstrapVars>>

\* The variables expvar.Do may iterate over, as key and value.
ExpVars == {<<>>,
            << <<"cmdline", "[\"app\"]">> >>,
            << <<"cmdline", "[\"app\"]">>, <<"memstats", "{}">> >>}

RECURSIVE MetricsEntries(_, _)
MetricsEntries(kvs, first) ==
    IF kvs = <<>> THEN <<>>
    ELSE (IF ~first THEN << <<",">> >> ELSE <<>>)
         \o << <<"%q: %s", Head(kvs)[1], Head(kvs)[2]>> >>
         \o MetricsEntries(Tail(kvs), FALSE)

\* metricsHandler.ServeHTTP
MetricsRequest(kvs) ==
    /\ RouteBound("GET", <<metricsUri>>, metricsHandler)
    /\ lastReq' = [kind |-> "metrics"]
    /\ resp' = [status |-> 200,
                headers |-> [CacheControl |-> CacheControl,
                             ContentType |-> "application/json"],
                body |-> << <<"{">> >> \o MetricsEntries(kvs, TRUE) \o << <<"}">> >>]
    /\ UNCHANGED <<lifecycleVars, adminVars, logVars, bootstrapVars>>

\* pingHandler.ServeHTTP
PingRequest ==
    /\ RouteBound("GET", <<pingUri>>, pingHandler)
    /\ lastReq' = [kind |-> "ping"]
    /\ resp' = [status |-> 200,
                headers |-> [CacheControl |-> CacheControl, ContentType |-> "text/plain"],
                body |-> << <<"pong\n">> >>]
    /\ UNCHANGED <<lifecycleVars, adminVars, logVars, bootstrapVars>>

\* The readings of the Go runtime a request may see.
RuntimeReadings == {"idle", "busy"}

\* runtimeHandler.ServeHTTP: one entry for each Fprintf, with the reading
\* its values are taken from.
RuntimeRequest(reading) ==
    /\ RouteBound("GET", <<runtimeUri>>, runtimeHandler)
    /\ lastReq' = [kind |-> "runtime"]
    /\ resp' = [status |-> 200,
                headers |-> [CacheControl |-> CacheControl, ContentType |-> "text/plain"],
                body |-> << <<"NumCPU, NumCgoCall, NumGoroutine", reading>>,
                            <<"MemStats: general statistics", reading>>,
                            <<"MemStats: heap statistics", reading>>,
                            <<"MemStats: allocator statistics", reading>>,
                            <<"MemStats: garbage collector statistics", reading>>,
                            <<"Version", reading>> >>]
    /\ UNCHANGED <<lifecycleVars, adminVars, logVars, bootstrapVars>>

\* gcTask.ServeHTTP
GcTaskRequest ==
    /\ RouteBound("POST", <<tasksUri, "/", gcTaskName>>, gcTask)
    /\ lastReq' = [kind |-> "gc"]
    /\ resp' = [status |-> 200, headers |-> [h \in {} |-> ""],
                body |-> << <<"Running GC...\n">>, <<"Done!\n">> >>]
    /\ UNCHANGED <<lifecycleVars, adminVars, logVars, bootstrapVars>>

\* ============================================================== core.logTask
\* Strings that are compared letter by letter are sequences of characters.
LowerChars == <<"a", "b", "c", "d", "e", "f", "g", "h", "i", "j", "k", "l", "m",
                "n", "o", "p", "q", "r", "s", "t", "u", "v", "w", "x", "y", "z">>
UpperChars == <<"A", "B", "C", "D", "E", "F", "G", "H", "I", "J", "K", "L", "M",
                "N", "O", "P", "Q", "R", "S", "T", "U", "V", "W", "X", "Y", "Z">>

\* Case folding of one character, as strings.EqualFold does it.
FoldChar(c) ==
    IF \E i \in DOMAIN LowerChars : LowerChars[i] = c
    THEN UpperChars[CHOOSE i \in DOMAIN LowerChars : LowerChars[i] = c]
    ELSE c

EqualFold(s, t) ==
    /\ Len(s) = Len(t)
    /\ \A i \in 1..Len(s) : FoldChar(s[i]) = FoldChar(t[i])

logLevels == <<"LevelAll", "LevelTrace", "LevelDebug", "LevelInfo", "LevelWarn",
               "LevelError", "LevelOff">>
Levels == {logLevels[i] : i \in DOMAIN logLevels}

\* gol.LevelString
LevelString(l) ==
    CASE l = "LevelAll" -> <<"A", "L", "L">>
      [] l = "LevelTrace" -> <<"T", "R", "A", "C", "E">>
      [] l = "LevelDebug" -> <<"D", "E", "B", "U", "G">>
      [] l = "LevelInfo" -> <<"I", "N", "F", "O">>
      [] l = "LevelWarn" -> <<"W", "A", "R", "N">>
      [] l = "LevelError" -> <<"E", "R", "R", "O", "R">>
      [] l = "LevelOff" -> <<"O", "F", "F">>

\* A parser that accepts every string, taking an unknown one for OFF.
parseLogLevelLenient(level) ==
    LET hits == {i \in DOMAIN logLevels : EqualFold(level, LevelString(logLevels[i]))}
    IN IF hits # {}
       THEN [level |-> logLevels[CHOOSE i \in hits : \A j \in hits : i <= j], ok |-> TRUE]
       ELSE [level |-> "LevelOff", ok |-> TRUE]

\* A parser that compares the names letter by letter, case included.
parseLogLevelCaseSensitive(level) ==
    LET hits == {i \in DOMAIN logLevels : level = LevelString(logLevels[i])}
    IN IF hits # {}
       THEN [level |-> logLevels[CHOOSE i \in hits : \A j \in hits : i <= j], ok |-> TRUE]
       ELSE [level |-> "LevelOff", ok |-> FALSE]

\* The first level of logLevels whose name equals `level` ignoring case.
parseLogLevel(level) ==
    LET hits == {i \in DOMAIN logLevels : EqualFold(level, LevelString(logLevels[i]))}
    IN IF hits # {}
       THEN [level |-> logLevels[CHOOSE i \in hits : \A j \in hits : i <= j], ok |-> TRUE]
       ELSE [level |-> "LevelOff", ok |-> FALSE]

\* gol.GetLogger(name) for every name; DefaultLoggers are the *gol.DefaultLogger.
LoggerNames == {"x", "y", "ext"}
DefaultLoggers == {"x", "y"}

\* The values the `level` query parameter takes (<<>>: absent or empty).
LevelInputs == {<<>>,
                <<"W", "A", "R", "N">>, <<"w", "a", "r", "n">>,
                <<"I", "n", "f", "o">>, <<"o", "f", "f">>,
                <<"b", "o", "g", "u", "s">>, <<"W", "A", "R", "N", "S">>}

\* Level parameters around the seven names: every name in some letter case,
\* and strings that are no name.
ParseInputs == {<<>>,
                <<"a", "l", "l">>, <<"T", "r", "a", "c", "e">>,
                <<"D", "E", "B", "U", "G">>, <<"i", "n", "f", "O">>,
                <<"w", "A", "r", "N">>, <<"e", "r", "r", "o", "r">>,
                <<"O", "f", "f">>,
                <<"O", "F">>, <<"O", "F", "F", "F">>, <<"W", "A", "R">>,
                <<"0", "F", "F">>, <<"L", "e", "v", "e", "l", "O", "f", "f">>}

\* The logger parameters sent with them.
ParseLoggers == {<<"x", "y">>, <<"ext", "x">>, <<"y">>, <<"ext">>}

\* parseLogLevel on each of these values.
Parsed == [l \in LevelInputs \cup ParseInputs |-> parseLogLevel(l)]

\* parseLogLevel was not called.
NoParse == [level |-> "not called", ok |-> FALSE]

InitLog ==
    /\ loggerLevel = [n \in LoggerNames |-> "LevelInfo"]
    /\ applied = [n \in DefaultLoggers |-> <<>>]
    /\ lastParse = NoParse

\* A loop that sets the level of the first named logger only.
SetLevelsFirstOnly(lv, names, level) ==
    IF names # <<>> /\ Head(names) \in DefaultLoggers
    THEN [lv EXCEPT ![Head(names)] = level] ELSE lv

\* The loop of SetLevel calls: every named *gol.DefaultLogger gets the level.
RECURSIVE SetLevels(_, _, _)
SetLevels(lv, names, level) ==
    IF names = <<>> THEN lv
    ELSE SetLevels(IF Head(names) \in DefaultLoggers
                   THEN [lv EXCEPT ![Head(names)] = level] ELSE lv,
                   Tail(names), level)

\* The loop printing the level of each named *gol.DefaultLogger.
RECURSIVE PrintLevels(_, _)
PrintLevels(lv, names) ==
    IF names = <<>> THEN <<>>
    ELSE (IF Head(names) \in DefaultLoggers
          THEN << <<Head(names), ": ", LevelString(lv[Head(names)]), "\n">> >>
          ELSE <<>>)
         \o PrintLevels(lv, Tail(names))

\* http.Error(w, msg, code)
HttpError(msg, code) ==
    [status |-> code,
     headers |-> [ContentType |-> "text/plain; charset=utf-8",
                  XContentTypeOptions |-> "nosniff"],
     body |-> << <<msg, "\n">> >>]

EmptyHeaders == [h \in {} |-> ""]

\* A log task that validates the level before it looks at the loggers.
LogTaskOutcomeLevelFirst(lv, loggers, level) ==
    IF level # <<>> /\ ~Parsed[level].ok
    THEN [resp |-> HttpError("Level is not supported", 400), levels |-> lv]
    ELSE IF Len(loggers) = 0
    THEN [resp |-> [status |-> 200, headers |-> EmptyHeaders, body |-> <<>>],
          levels |-> lv]
    ELSE LET after == IF level # <<>>
                      THEN SetLevels(lv, loggers, Parsed[level].level)
                      ELSE lv
         IN [resp |-> [status |-> 200, headers |-> EmptyHeaders,
                       body |-> PrintLevels(after, loggers)],
             levels |-> after]

\* The outcome of logTask.ServeHTTP on the query (loggers, level) with the
\* logger levels lv: the response and the logger levels afterwards.
LogTaskOutcome(lv, loggers, level) ==
    IF Len(loggers) = 0
    THEN [resp |-> [status |-> 200, headers |-> EmptyHeaders, body |-> <<>>],
          levels |-> lv]
    ELSE IF level # <<>> /\ ~Parsed[level].ok
    THEN [resp |-> HttpError("Level is not supported", 400), levels |-> lv]
    ELSE LET after == IF level # <<>>
                      THEN SetLevels(lv, loggers, Parsed[level].level)
                      ELSE lv
         IN [resp |-> [status |-> 200, headers |-> EmptyHeaders,
                       body |-> PrintLevels(after, loggers)],
             levels |-> after]

LogTaskRequest(loggers, level) ==
    /\ RouteBound("POST", <<tasksUri, "/", logTaskName>>, logTask)
    /\ LET out == LogTaskOutcome(loggerLevel, loggers, level)
       IN /\ resp' = out.resp
          /\ loggerLevel' = out.levels
          /\ applied' = [n \in DefaultLoggers |->
                IF /\ level # <<>>
                   /\ out.resp.status = 200
                   /\ \E i \in 1..Len(loggers) : loggers[i] = n
                THEN level ELSE applied[n]]
    /\ lastParse' = IF Len(loggers) > 0 /\ level # <<>> THEN Parsed[level] ELSE NoParse
    /\ lastReq' = [kind |-> "log", loggers |-> loggers, level |-> level]
    /\ UNCHANGED <<lifecycleVars, adminVars, bootstrapVars>>


\* ============================================= core.Bootstrap and gomelon.Run
Nil == <<>>
NotRun == <<"not run">>

Bundles == {"assets", "views"}

\* A Command is its Name(), its Description() and what its Run returns.
Commands == {[id |-> "server", name |-> "server", description |-> "runs the application",
              result |-> Nil],
             [id |-> "check", name |-> "check", description |-> "checks the configuration",
              result |-> <<"error", "check">>],
             [id |-> "serverAlt", name |-> "server", description |-> "runs the other server",
              result |-> <<"error", "serverAlt">>]}

\* The first argument of the command line, and the command lines.
FirstArgs == {"server", "check", "Server", "help"}
ArgLines == {<<>>} \cup {<<a>> : a \in FirstArgs} \cup {<<"server", "config.json">>}

\* What a bundle's Initialize(bootstrap) does: the bundles it adds with
\* AddBundle (each with an Initialize of its own) and the commands it adds
\* with AddCommand.
LeafPlans == {[bundle |-> b, inner |-> <<>>, cmds |-> <<>>] : b \in Bundles}
Plans == {[bundle |-> b, inner |-> in, cmds |-> cs] :
             b \in Bundles, in \in SeqsUpTo(LeafPlans, MaxInitCalls),
             cs \in SeqsUpTo(Commands, MaxInitCalls)}

\* The bundles and commands after AddBundle of a bundle whose Initialize
\* follows `plan`: Initialize runs first, then the bundle is appended.
RECURSIVE AddBundlePlan(_, _)
RECURSIVE AddBundlePlans(_, _)
AddBundlePlans(st, plans) ==
    IF plans = <<>> THEN st
    ELSE AddBundlePlans(AddBundlePlan(st, Head(plans)), Tail(plans))

\* An AddBundle that appends the bundle first and initializes it afterwards.
AddBundlePlanAppendFirst(st, plan) ==
    LET appended == [bundles |-> Append(st.bundles, plan.bundle),
                     commands |-> st.commands \o plan.cmds,
                     events |-> st.events \o << <<"append", plan.bundle>>,
                                                <<"Initialize", plan.bundle>> >>]
    IN AddBundlePlans(appended, plan.inner)

AddBundlePlan(st, plan) ==
    LET entered == [st EXCEPT !.events = Append(@, <<"Initialize", plan.bundle>>)]
        inited == AddBundlePlans(entered, plan.inner)
    IN [bundles |-> Append(inited.bundles, plan.bundle),
        commands |-> inited.commands \o plan.cmds,
        events |-> Append(inited.events, <<"append", plan.bundle>>)]

InitBootstrap ==
    /\ bundles = <<>>
    /\ commands = <<>>
    /\ pc = "start"
    /\ args = <<>>
    /\ ranCommands = <<>>
    /\ runReturn = NotRun
    /\ helpOut = <<>>
    /\ bundleRunCalls = <<>>
    /\ bundleEvents = <<>>
    /\ failingBundles = {}
    /\ bootstrapResult = NotRun

\* gomelon.Run(app, as) up to the call of app.Initialize: a new Bootstrap
\* holding the arguments.
RunBegin(as) ==
    /\ pc = "start"
    /\ args' = as
    /\ bundles' = <<>>
    /\ commands' = <<>>
    /\ bundleEvents' = <<>>
    /\ pc' = "initialize"
    /\ UNCHANGED <<ranCommands, runReturn, helpOut, bundleRunCalls, failingBundles,
                   bootstrapResult>>
    /\ UNCHANGED <<lifecycleVars, adminVars, httpVars, logVars>>

\* Bootstrap.AddBundle, called from Application.Initialize.
AddBundle(plan) ==
    /\ pc = "initialize"
    /\ LET st == AddBundlePlan([bundles |-> bundles, commands |-> commands,
                                events |-> bundleEvents], plan)
       IN /\ Len(st.bundles) <= MaxBundles
          /\ Len(st.commands) <= MaxCommands
          /\ bundles' = st.bundles
          /\ commands' = st.commands
          /\ bundleEvents' = st.events
    /\ UNCHANGED <<pc, args, ranCommands, runReturn, helpOut, bundleRunCalls,
                   failingBundles, bootstrapResult>>
    /\ UNCHANGED <<lifecycleVars, adminVars, httpVars, logVars>>

\* Bootstrap.AddCommand, called from Application.Initialize.
AddCommand(command) ==
    /\ pc = "initialize"
    /\ Len(commands) < MaxCommands
    /\ commands' = Append(commands, command)
    /\ UNCHANGED <<bundles, pc, args, ranCommands, runReturn, helpOut, bundleRunCalls,
                   bundleEvents, failingBundles, bootstrapResult>>
    /\ UNCHANGED <<lifecycleVars, adminVars, httpVars, logVars>>

\* The error a bundle's Run returns when it fails.
BundleError(b) == <<"error", b>>

\* The loop of Bootstrap.Run over the bundles bs, the Run of the bundles in
\* `failing` returning an error: the calls made and the value returned.
RECURSIVE RunBundlesAll(_, _)
RunBundlesAll(bs, failing) ==
    IF bs = <<>> THEN [calls |-> <<>>, result |-> Nil]
    ELSE LET rest == RunBundlesAll(Tail(bs), failing)
         IN [calls |-> <<Head(bs)>> \o rest.calls,
             result |-> IF Head(bs) \in failing THEN BundleError(Head(bs))
                        ELSE rest.result]

RECURSIVE RunBundles(_, _)
RunBundles(bs, failing) ==
    IF bs = <<>> THEN [calls |-> <<>>, result |-> Nil]
    ELSE IF Head(bs) \in failing
    THEN [calls |-> <<Head(bs)>>, result |-> BundleError(Head(bs))]
    ELSE LET rest == RunBundles(Tail(bs), failing)
         IN [calls |-> <<Head(bs)>> \o rest.calls, result |-> rest.result]

\* Bootstrap.Run, called by the command that gomelon.Run dispatched to.
BootstrapRun(failing) ==
    /\ pc = "command"
    /\ bootstrapResult = NotRun
    /\ LET r == RunBundles(bundles, failing)
       IN /\ bundleRunCalls' = bundleRunCalls \o r.calls
          /\ bootstrapResult' = r.result
    /\ failingBundles' = failing
    /\ UNCHANGED <<bundles, commands, pc, args, ranCommands, runReturn, helpOut,
                   bundleEvents>>
    /\ UNCHANGED <<lifecycleVars, adminVars, httpVars, logVars>>

\* printHelp: the lines printed, each the arguments of one println.
printHelp(cs) ==
    << <<"Available commands:">> >>
    \o [i \in 1..Len(cs) |-> <<"   ", cs[i].name, "\t", cs[i].description>>]

\* command.Name() == args[0]
NameMatches(name, arg) == name = arg

\* The index of the command gomelon.Run selects, 0 when it selects none.
SelectLast(cs, as) ==
    IF Len(as) > 0 /\ \E i \in 1..Len(cs) : NameMatches(cs[i].name, as[1])
    THEN CHOOSE i \in 1..Len(cs) :
            /\ NameMatches(cs[i].name, as[1])
            /\ \A j \in 1..Len(cs) : NameMatches(cs[j].name, as[1]) => j <= i
    ELSE 0

Select(cs, as) ==
    IF Len(as) > 0 /\ \E i \in 1..Len(cs) : NameMatches(cs[i].name, as[1])
    THEN CHOOSE i \in 1..Len(cs) :
            /\ NameMatches(cs[i].name, as[1])
            /\ \A j \in 1..Len(cs) : NameMatches(cs[j].name, as[1]) => i <= j
    ELSE 0

\* gomelon.Run after app.Initialize has returned: the command loop, up to the
\* call of the selected command's Run, or printHelp and return.
Dispatch ==
    /\ pc = "initialize"
    /\ LET k == Select(commands, args)
       IN IF k # 0
          THEN /\ ranCommands' = Append(ranCommands, commands[k])
               /\ pc' = "command"
               /\ UNCHANGED <<helpOut, runReturn>>
          ELSE /\ helpOut' = helpOut \o printHelp(commands)
               /\ runReturn' = Nil
               /\ pc' = "done"
               /\ UNCHANGED ranCommands
    /\ UNCHANGED <<bundles, commands, args, bundleRunCalls, bundleEvents, failingBundles,
                   bootstrapResult>>
    /\ UNCHANGED <<lifecycleVars, adminVars, httpVars, logVars>>

\* The selected command's Run returns; gomelon.Run returns its result.
CommandReturn ==
    /\ pc = "command"
    /\ runReturn' = ranCommands[Len(ranCommands)].result
    /\ pc' = "done"
    /\ UNCHANGED <<bundles, commands, args, ranCommands, helpOut, bundleRunCalls,
                   bundleEvents,
                   failingBundles, bootstrapResult>>
    /\ UNCHANGED <<lifecycleVars, adminVars, httpVars, logVars>>

\* ============================================================ specifications
Init == InitLifecycle /\ InitAdmin /\ InitHttp /\ InitLog /\ InitBootstrap

NextLifecycle ==
    \/ \E obj \in Objects : Manage(obj)
    \/ \E failing \in SUBSET Objects : LifecycleOnStarting(failing)
    \/ \E failing \in SUBSET Objects : LifecycleOnStopped(failing)

SpecLifecycle == Init /\ [][NextLifecycle]_vars

NextAdmin ==
    \/ \E hs \in SeqsUpTo(CustomHandlers, MaxArgs) \ {<<>>} : AddHandler(hs)
    \/ \E ts \in SeqsUpTo(CustomTasks, MaxArgs) \ {<<>>} : AddTask(ts)
    \/ \E name \in CheckNames : RegisterHealthCheck(name)
    \/ AdminOnStarting

SpecAdmin == Init /\ [][NextAdmin]_vars

NextHealth ==
    \/ \E name \in CheckNames : RegisterHealthCheck(name)
    \/ AdminOnStarting
    \/ HealthCheckRequest

SpecHealth == Init /\ [][NextHealth]_vars

NextLog ==
    \/ AdminOnStarting
    \/ \E loggers \in SeqsUpTo(LoggerNames, MaxLoggers) :
         \E level \in LevelInputs : LogTaskRequest(loggers, level)

SpecLog == Init /\ [][NextLog]_vars

NextBootstrap ==
    \/ \E as \in ArgLines : RunBegin(as)
    \/ \E plan \in Plans : AddBundle(plan)
    \/ \E command \in Commands : AddCommand(command)
    \/ Dispatch
    \/ \E failing \in SUBSET Bundles : BootstrapRun(failing)
    \/ CommandReturn

SpecBootstrap == Init /\ [][NextBootstrap]_vars

\* Every handler and task of the admin surface, the log task with one logger.
\* parseLogLevel through the log task, on the level parameters ParseInputs.
NextParse ==
    \/ AdminOnStarting
    \/ \E loggers \in ParseLoggers :
         \E level \in ParseInputs : LogTaskRequest(loggers, level)

SpecParse == Init /\ [][NextParse]_vars

\* The home index: registration, the starting transition and GET /.
NextHome ==
    \/ \E hs \in SeqsUpTo(CustomHandlers, MaxAdded) : AddHandler(hs)
    \/ \E ts \in SeqsUpTo(CustomTasks, MaxAdded) : AddTask(ts)
    \/ AdminOnStarting
    \/ HomeRequest

SpecHome == Init /\ [][NextHome]_vars

NextSurface ==
    \/ \E name \in CheckNames : RegisterHealthCheck(name)
    \/ AdminOnStarting
    \/ HomeRequest
    \/ \E kvs \in ExpVars : MetricsRequest(kvs)
    \/ PingRequest
    \/ \E reading \in RuntimeReadings : RuntimeRequest(reading)
    \/ HealthCheckRequest
    \/ GcTaskRequest
    \/ \E loggers \in SeqsUpTo(LoggerNames, 1) :
         \E level \in LevelInputs : LogTaskRequest(loggers, level)

SpecSurface == Init /\ [][NextSurface]_vars

Next == NextSurface \/ NextLifecycle \/ NextAdmin \/ HealthCheckRequest \/ NextLog \/ NextBootstrap

Spec == Init /\ [][Next]_vars


\* ==================================================================== claims
\* C1: onStarting invokes Start on the managed objects in exactly registration
\* order and onStopped invokes Stop on them in exactly the reverse order,
\* whichever Start and Stop calls fail.
C1_StartStopOrder ==
    [][/\ (lcPhase = "registering" /\ lcPhase' = "started") =>
            startCalls' = startCalls \o managedObjects
       /\ (lcPhase = "started" /\ lcPhase' = "stopped") =>
            /\ Len(stopCalls') = Len(stopCalls) + Len(managedObjects)
            /\ \A i \in 1..Len(managedObjects) :
                 stopCalls'[Len(stopCalls) + i] =
                    managedObjects[Len(managedObjects) + 1 - i]]_vars

C1_Witness ==
    /\ lcPhase = "stopped"
    /\ Len(stopCalls) = 3
    /\ stopCalls[1] # stopCalls[3]
    /\ Len(warnings) >= 2

\* C2: a failing Start or Stop never prevents the others: one onStarting
\* invokes Start once for every registration, one onStopped invokes Stop once
\* for every registration, and both return normally.
C2_FailureDoesNotStopOthers ==
    [][/\ (lcPhase = "registering" /\ lcPhase' = "started") =>
            /\ \A o \in Objects :
                 Count(startCalls', o) = Count(startCalls, o) + Count(managedObjects, o)
            /\ ~lcAborted'
       /\ (lcPhase = "started" /\ lcPhase' = "stopped") =>
            /\ \A o \in Objects :
                 Count(stopCalls', o) = Count(stopCalls, o) + Count(managedObjects, o)
            /\ ~lcAborted']_vars

C2_Witness ==
    /\ lcPhase = "stopped"
    /\ Len(startCalls) >= 2
    /\ Len(stopCalls) >= 2
    /\ \E i \in 1..Len(warnings) :
         warnings[i] = <<"error starting a managed object", startCalls[1]>>
    /\ \E i \in 1..Len(warnings) :
         warnings[i] = <<"error stopping a managed object", stopCalls[1]>>

\* C3: Bootstrap.Run is fail-fast in registration order: Run is invoked once
\* on each bundle up to and including the first one that fails, on no later
\* bundle, and that bundle's error is returned as it is; when no bundle fails
\* Run is invoked once on every bundle, in order, and nil is returned.
C3_BootstrapRunFailFast ==
    bootstrapResult # NotRun =>
        LET failed == {i \in 1..Len(bundles) : bundles[i] \in failingBundles}
        IN IF failed # {}
           THEN LET k == CHOOSE i \in failed : \A j \in failed : i <= j
                IN /\ bundleRunCalls = SubSeq(bundles, 1, k)
                   /\ bootstrapResult = <<"error", bundles[k]>>
           ELSE /\ bundleRunCalls = bundles
                /\ bootstrapResult = Nil

C3_Witness ==
    /\ bootstrapResult # NotRun
    /\ Len(bundles) = 3
    /\ bundles[1] \notin failingBundles
    /\ bundles[2] \in failingBundles
    /\ bundles[3] \in failingBundles
    /\ Len(bundleRunCalls) = 2

\* C4: after app.Initialize, gomelon.Run runs a command iff there is a first
\* argument and a registered command has exactly that name; it then runs the
\* first such command only and returns its result; otherwise it runs none,
\* prints the catalogue of the commands and returns nil.
C4_CommandDispatch ==
    pc = "done" =>
        LET named == IF Len(args) > 0
                     THEN {i \in 1..Len(commands) : commands[i].name = args[1]}
                     ELSE {}
        IN IF named # {}
           THEN LET k == CHOOSE i \in named : \A j \in named : i <= j
                IN /\ ranCommands = <<commands[k]>>
                   /\ runReturn = commands[k].result
                   /\ helpOut = <<>>
           ELSE /\ ranCommands = <<>>
                /\ runReturn = Nil
                /\ Len(helpOut) = Len(commands) + 1
                /\ \A i \in 1..Len(commands) :
                     /\ \E p \in DOMAIN helpOut[i + 1] : helpOut[i + 1][p] = commands[i].name
                     /\ \E p \in DOMAIN helpOut[i + 1] :
                          helpOut[i + 1][p] = commands[i].description

C4_Witness ==
    /\ pc = "done"
    /\ Len(args) > 0
    /\ Len(commands) = 2
    /\ commands[1] # commands[2]
    /\ commands[1].name = args[1]
    /\ commands[2].name = args[1]
    /\ runReturn # Nil

\* C5: a /healthcheck request served while no health check is registered
\* answers 501 with the body "No health checks registered." and no line of
\* any check.
C5_NoHealthChecks ==
    (lastReq.kind = "healthcheck" /\ DOMAIN lastReq.results = {}) =>
        /\ resp.status = 501
        /\ resp.body = << <<"No health checks registered.">> >>

C5_Witness ==
    /\ lastReq.kind = "healthcheck"
    /\ healthChecks = {}
    /\ resp.status = 501

\* C6: with at least one health check registered, /healthcheck answers 200
\* iff every check is healthy and 500 otherwise, and the body holds one
\* "<name>:\n\tHealthy: <bool>\n" entry for every check, healthy or not.
C6_HealthAggregate ==
    (lastReq.kind = "healthcheck" /\ DOMAIN lastReq.results # {}) =>
        LET results == lastReq.results
        IN /\ resp.status = 200 <=> \A n \in DOMAIN results : results[n].healthy
           /\ resp.status \in {200, 500}
           /\ \A n \in DOMAIN results :
                Count(resp.body, <<n, ":\n\tHealthy: ", results[n].healthy, "\n">>) = 1

C6_Witness ==
    /\ lastReq.kind = "healthcheck"
    /\ \E a, b \in DOMAIN lastReq.results :
         lastReq.results[a].healthy /\ ~lastReq.results[b].healthy
    /\ resp.status = 500

\* The string s in upper case, and whether it names one of the seven levels.
UpperCase(s) == [i \in 1..Len(s) |-> FoldChar(s[i])]
LevelNames == {LevelString(l) : l \in Levels}
LevelNamed(s) == CHOOSE l \in Levels : LevelString(l) = UpperCase(s)

\* C7: a log task request naming at least one logger with a level that is
\* none of the supported levels answers 400 with the line "Level is not
\* supported" and leaves the level of every logger as it was.
C7_UnsupportedLevelRejected ==
    [][(/\ lastReq'.kind = "log"
        /\ Len(lastReq'.loggers) > 0
        /\ lastReq'.level # <<>>
        /\ UpperCase(lastReq'.level) \notin LevelNames) =>
            /\ resp'.status = 400
            /\ resp'.body = << <<"Level is not supported", "\n">> >>
            /\ loggerLevel' = loggerLevel]_vars

C7_Witness ==
    /\ lastReq.kind = "log"
    /\ lastReq.loggers = <<"x", "y">>
    /\ lastReq.level = <<"b", "o", "g", "u", "s">>
    /\ resp.status = 400
    /\ loggerLevel["x"] = "LevelWarn"
    /\ loggerLevel["y"] = "LevelOff"

\* C8: once a log task request has applied a supported level L to a
\* level-mutable logger x, x keeps the level L until another supported level
\* is applied to it, and a request naming x with no level reports "x: L".
C8_LevelRoundTrip ==
    \A x \in DefaultLoggers :
        applied[x] # <<>> =>
            /\ loggerLevel[x] = LevelNamed(applied[x])
            /\ (lastReq.kind = "log" /\ lastReq.level = <<>> /\ lastReq.loggers = <<x>>) =>
                  /\ resp.status = 200
                  /\ resp.body = << <<x, ": ", UpperCase(applied[x]), "\n">> >>

C8_Witness ==
    /\ lastReq.kind = "log"
    /\ lastReq.level = <<>>
    /\ lastReq.loggers = <<"x">>
    /\ applied["x"] = <<"w", "a", "r", "n">>
    /\ applied["y"] = <<"o", "f", "f">>

\* C9: the paths of the registered handlers are pairwise distinct and the
\* names of the registered tasks are pairwise distinct.
C9_DistinctPathsAndNames ==
    /\ \A i, j \in 1..Len(handlers) : handlers[i].path = handlers[j].path => i = j
    /\ \A i, j \in 1..Len(tasks) : tasks[i].name = tasks[j].name => i = j

\* C10: once the starting transition has begun, AddHandler, AddTask and
\* Manage leave the handler list, the task list and the managed objects as
\* they were.
C10_FrozenAfterStarting ==
    [][/\ adminPhase = "started" => (handlers' = handlers /\ tasks' = tasks)
       /\ lcPhase # "registering" => managedObjects' = managedObjects]_vars

\* C11: every response of the admin surface carries the header
\* Cache-Control: must-revalidate,no-cache,no-store.
C11_CacheControlEverywhere ==
    resp.status # 0 =>
        /\ "CacheControl" \in DOMAIN resp.headers
        /\ resp.headers.CacheControl = "must-revalidate,no-cache,no-store"

\* C12: onStarting binds exactly GET / for the home index, then GET h.Path()
\* for every registered handler in registration order, then POST
\* /tasks/<t.Name()> for every registered task in registration order; no
\* route is bound before or after.
C12_RoutesBound ==
    [][/\ adminPhase' = "registering" => routes' = <<>>
       /\ adminPhase = "started" => routes' = routes
       /\ (adminPhase = "registering" /\ adminPhase' = "started") =>
            /\ Len(routes') = 1 + Len(handlers) + Len(tasks)
            /\ routes'[1] = [method |-> "GET", path |-> <<"/">>,
                             target |-> adminHomeHandler]
            /\ \A i \in 1..Len(handlers) :
                 routes'[1 + i] = [method |-> "GET", path |-> <<handlers[i].path>>,
                                   target |-> handlers[i]]
            /\ \A i \in 1..Len(tasks) :
                 routes'[1 + Len(handlers) + i] =
                    [method |-> "POST", path |-> <<"/tasks", "/", tasks[i].name>>,
                     target |-> tasks[i]]]_vars

C12_Witness ==
    /\ adminPhase = "started"
    /\ Len(routes) = 9
    /\ routes[6].target.name = "Stats"
    /\ routes[9].target.name = "reload"

\* C13: a log task request without any logger parameter answers with an
\* empty body and the status 200 and changes no logger's level, whatever its
\* level parameter is, an unsupported one included.
C13_NoLoggerIsNoOp ==
    [][(lastReq'.kind = "log" /\ Len(lastReq'.loggers) = 0) =>
            /\ resp'.status = 200
            /\ resp'.body = <<>>
            /\ loggerLevel' = loggerLevel]_vars

C13_Witness ==
    /\ lastReq.kind = "log"
    /\ lastReq.loggers = <<>>
    /\ lastReq.level = <<"b", "o", "g", "u", "s">>
    /\ resp.status = 200
    /\ resp.body = <<>>
    /\ loggerLevel["x"] = "LevelWarn"

\* The bundles of the "append" events of evs, in order.
RECURSIVE Appended(_)
Appended(evs) ==
    IF evs = <<>> THEN <<>>
    ELSE IF Head(evs)[1] = "append" THEN <<Head(evs)[2]>> \o Appended(Tail(evs))
    ELSE Appended(Tail(evs))

\* evs is properly nested over the open AddBundle calls `open`: every
\* "append" of b closes the innermost open call, which is an AddBundle of b
\* that has invoked b.Initialize and has not appended yet.
RECURSIVE Nested(_, _)
Nested(evs, open) ==
    IF evs = <<>> THEN open = <<>>
    ELSE IF Head(evs)[1] = "Initialize"
    THEN Nested(Tail(evs), <<Head(evs)[2]>> \o open)
    ELSE /\ open # <<>>
         /\ Head(open) = Head(evs)[2]
         /\ Nested(Tail(evs), Tail(open))

\* C14: every AddBundle(b) invokes b.Initialize once and appends b only when
\* Initialize has returned, so the bundle sequence is the order in which the
\* AddBundle calls complete, a bundle added from inside another bundle's
\* Initialize comes before that bundle, and Bootstrap.Run runs the bundles in
\* that order.
C14_InnerBundleFirst ==
    /\ Nested(bundleEvents, <<>>)
    /\ bundles = Appended(bundleEvents)
    /\ bundleRunCalls = SubSeq(Appended(bundleEvents), 1, Len(bundleRunCalls))

C14_Witness ==
    /\ bundleEvents = << <<"Initialize", "views">>, <<"Initialize", "assets">>,
                         <<"append", "assets">>, <<"append", "views">> >>
    /\ bundles = <<"assets", "views">>
    /\ bundleRunCalls = <<"assets", "views">>

\* C15: every object on which onStopped has invoked Stop is an object on
\* which onStarting invoked Start before.
C15_StopOnlyStarted ==
    \A i \in 1..Len(stopCalls) :
        \E j \in 1..Len(startCalls) : startCalls[j] = stopCalls[i]

\* C16: every /healthcheck request runs the probes of all the checks
\* registered at that moment, and its status and body are those of the
\* results of that request alone, whatever the response before was: 501 with
\* no check, 200 with all healthy, 500 otherwise, one entry per check.
C16_NoCaching ==
    [][(/\ lastReq'.kind = "healthcheck"
        /\ healthChecks' = healthChecks
        /\ adminPhase' = adminPhase) =>
          LET results == lastReq'.results
          IN /\ DOMAIN results = healthChecks
             /\ resp'.status = IF healthChecks = {} THEN 501
                               ELSE IF \A n \in healthChecks : results[n].healthy
                               THEN 200 ELSE 500
             /\ \A n \in healthChecks :
                  Count(resp'.body, <<n, ":\n\tHealthy: ", results[n].healthy, "\n">>) = 1
             /\ Cardinality({i \in 1..Len(resp'.body) :
                               /\ Len(resp'.body[i]) = 4
                               /\ resp'.body[i][2] = ":\n\tHealthy: "})
                  = Cardinality(healthChecks)]_vars

\* A request that reports two checks, one of them unhealthy, on an
\* environment that had no check registered when it started.
C16_Witness ==
    /\ lastReq.kind = "healthcheck"
    /\ \E i \in 1..Len(adminLog) : adminLog[i] = <<"WARN", noHealthChecksWarning>>
    /\ Cardinality(DOMAIN lastReq.results) = 2
    /\ \E n \in DOMAIN lastReq.results : ~lastReq.results[n].healthy
    /\ resp.status = 500

\* C17: the home index lists exactly the handlers registered when onStarting
\* ran, one entry each in registration order, with href = path prefix +
\* handler path and text = handler name, no task and not itself; a handler
\* added after onStarting changes neither the index nor the routes.
C17_HomeIndexSnapshot ==
    [][/\ (adminPhase = "registering" /\ adminPhase' = "started") =>
            homeHandlers' = handlers
       /\ adminPhase = "started" =>
            /\ homeHandlers' = homeHandlers
            /\ routes' = routes
       /\ (lastReq'.kind = "home" /\ adminVars' = adminVars) =>
            LET entries == resp'.body[1][2]
            IN /\ resp'.status = 200
               /\ Len(entries) = Len(homeHandlers)
               /\ \A i \in 1..Len(entries) :
                    entries[i] = <<"<li><a href=\"", "/admin", homeHandlers[i].path, "\">",
                                   homeHandlers[i].name, "</a></li>">>
               /\ \A i \in 1..Len(entries) :
                    /\ entries[i][5] # adminHomeHandler.name
                    /\ \A j \in 1..Len(tasks) : entries[i][5] # tasks[j].name]_vars

\* The index fetched after a handler was added to a started environment
\* lists the handlers of the start only.
C17_Witness ==
    /\ lastReq.kind = "home"
    /\ adminPhase = "started"
    /\ Len(homeHandlers) = 5
    /\ Len(handlers) = 6
    /\ Len(resp.body[1][2]) = 5
    /\ Len(routes) = 8

\* seq is a prefix of longer.
IsPrefix(seq, longer) ==
    /\ Len(seq) <= Len(longer)
    /\ SubSeq(longer, 1, Len(seq)) = seq

\* C18: NewAdminEnvironment yields the handlers metrics, ping, runtime,
\* healthcheck and the tasks gc, log; every AddHandler and AddTask call keeps
\* the entries registered so far at their positions and puts its arguments,
\* in argument order, at the end of its own list, leaving the other list as
\* it was, so the defaults stay the prefix of their lists.
C18_AppendOnly ==
    /\ [name |-> handlers[1].name, path |-> handlers[1].path] = [name |-> "Metrics", path |-> "/metrics"]
    /\ <<handlers[2].path, handlers[3].path, handlers[4].path>>
         = <<"/ping", "/runtime", "/healthcheck">>
    /\ Len(handlers) = 4
    /\ <<tasks[1].name, tasks[2].name>> = <<"gc", "log">>
    /\ Len(tasks) = 2
    /\ [][/\ IsPrefix(handlers, handlers')
          /\ IsPrefix(tasks, tasks')
          /\ IsPrefix(<<metricsHandler, pingHandler, runtimeHandler, healthCheckHandler>>,
                      handlers')
          /\ IsPrefix(<<gcTask, logTask>>, tasks')
          /\ (lastCall' # lastCall /\ lastCall'.op = "AddHandler") =>
                /\ handlers' = handlers \o lastCall'.args
                /\ tasks' = tasks
          /\ (lastCall' # lastCall /\ lastCall'.op = "AddTask") =>
                /\ tasks' = tasks \o lastCall'.args
                /\ handlers' = handlers
          /\ handlers' # handlers =>
                /\ lastCall'.op = "AddHandler"
                /\ handlers' = handlers \o lastCall'.args
          /\ tasks' # tasks =>
                /\ lastCall'.op = "AddTask"
                /\ tasks' = tasks \o lastCall'.args]_vars

\* Two handlers and two tasks were added, the last call an AddTask with two
\* different tasks.
C18_Witness ==
    /\ Len(handlers) = 6
    /\ handlers[5] # handlers[6]
    /\ Len(tasks) = 4
    /\ tasks[3] # tasks[4]
    /\ lastCall.op = "AddTask"
    /\ Len(lastCall.args) = 2

\* C19: parseLogLevel accepts a string iff it equals, ignoring letter case,
\* the name of one of the seven levels, and then returns that level; the log
\* task answers 400 and changes no level for every other string, and for an
\* accepted one sets every named level-mutable logger to the parsed level
\* and no other logger.
C19_LevelParsing ==
    [][(/\ lastReq'.kind = "log"
        /\ Len(lastReq'.loggers) > 0
        /\ lastReq'.level # <<>>) =>
          LET level == lastReq'.level
              named == {lastReq'.loggers[i] : i \in 1..Len(lastReq'.loggers)}
              sevenNames == {<<"A", "L", "L">>, <<"T", "R", "A", "C", "E">>,
                             <<"D", "E", "B", "U", "G">>, <<"I", "N", "F", "O">>,
                             <<"W", "A", "R", "N">>, <<"E", "R", "R", "O", "R">>,
                             <<"O", "F", "F">>}
          IN /\ lastParse'.ok <=> UpperCase(level) \in sevenNames
             /\ lastParse'.ok => LevelString(lastParse'.level) = UpperCase(level)
             /\ ~lastParse'.ok =>
                  /\ resp'.status = 400
                  /\ loggerLevel' = loggerLevel
             /\ lastParse'.ok =>
                  /\ resp'.status = 200
                  /\ \A n \in LoggerNames :
                       loggerLevel'[n] = IF n \in named \cap DefaultLoggers
                                         THEN lastParse'.level
                                         ELSE loggerLevel[n]]_vars

\* ?logger=x&logger=y&level=wArN has set both loggers to WARN.
C19_Witness ==
    /\ lastReq.kind = "log"
    /\ lastReq.loggers = <<"x", "y">>
    /\ lastReq.level = <<"w", "A", "r", "N">>
    /\ lastParse = [level |-> "LevelWarn", ok |-> TRUE]
    /\ loggerLevel["x"] = "LevelWarn"
    /\ loggerLevel["y"] = "LevelWarn"
    /\ applied["x"] = <<"w", "A", "r", "N">>

====
